---- MODULE Spec2Model ----
(***************************************************************************)
(* Model of src/shein_watch.py: the watch loop (main_loop), the change     *)
(* detector (should_alert), the state store (load_state / save_state),     *)
(* the notifier (telegram_send) and the fetcher's result                   *)
(* (scrape_snapshot).                                                      *)
(*                                                                         *)
(* Python / JSON values are tagged records, so that values of different    *)
(* types can be compared the way Python compares them:                     *)
(*   None / null   [t |-> "null"]                                          *)
(*   a number      [t |-> "num", n |-> 3]                                  *)
(*   a string      [t |-> "str", s |-> "abc"]                              *)
(*   a list        [t |-> "arr", a |-> <<1, 2>>]   (of signatures)         *)
(*   a dict        [t |-> "obj", o |-> [ts |-> .., product_count |-> ..,   *)
(*                      first_products |-> .., other |-> ..]]              *)
(* A key a dict does not hold has the value Missing; "other" stands for    *)
(* any key the program does not write (for instance "total").              *)
(* A product signature ("title | price | href") is an integer 1..NumSigs.  *)
(***************************************************************************)
EXTENDS Integers, Sequences, FiniteSets, TLC

\* ------------------------------------------------------------- bounds
MaxProducts == 2
NumSigs == 2
MaxTs == 1
MaxAnchors == 21

\* ------------------------------------------------- program constants
NumSelectors == 4
SampleAnchors == 20
EnoughProducts == 8
KeepSignatures == 10
BaseSleep == 30
JitterMin == -20
JitterMax == 30
SleepFloor == 30

VARIABLES
    file,       \* content of STATE_FILE ("state.json")
    token,      \* TELEGRAM_BOT_TOKEN is non-empty
    chat,       \* TELEGRAM_CHAT_ID is non-empty
    pc,         \* position of the process in main_loop
    prev,       \* main_loop's local prev
    curr,       \* main_loop's local curr
    startFile,  \* content of STATE_FILE when the current cycle began
    log,        \* what the current cycle has done so far, in order
    saved,      \* the Snapshot of the last save_state that completed
    sleepFor,   \* argument of the last time.sleep
    extraction, \* what the selector loop of the current cycle's fetch met
    lastAlert   \* the last change alert handed to telegram_send

vars == <<file, token, chat, pc, prev, curr, startFile, log, saved, sleepFor,
          extraction, lastAlert>>

\* ------------------------------------------------------------- values
Sigs == 1..NumSigs
SigSeqs == UNION {[1..k -> Sigs] : k \in 0..MaxProducts}

None == [t |-> "null"]
Missing == [t |-> "missing"]
JNum(n) == [t |-> "num", n |-> n]
JStr(s) == [t |-> "str", s |-> s]
JArr(a) == [t |-> "arr", a |-> a]
JObj(o) == [t |-> "obj", o |-> o]

Min(a, b) == IF a < b THEN a ELSE b
Max(a, b) == IF a > b THEN a ELSE b
Take(s, n) == SubSeq(s, 1, Min(Len(s), n))

Snapshot(ts, product_count, first_products) ==
    [ts |-> ts, product_count |-> product_count, first_products |-> first_products]

NoSnapshot == Snapshot(0, 0, <<>>)

\* ---------------------------------------------------------- the file
NoFile == [kind |-> "absent"]
Garbage == [kind |-> "garbage"]
JsonFile(doc) == [kind |-> "json", doc |-> doc]

Record(ts, product_count, first_products, other) ==
    JObj([ts |-> ts, product_count |-> product_count,
          first_products |-> first_products, other |-> other])

load_state(f) ==
    IF f.kind = "absent" THEN None
    ELSE IF f.kind = "garbage" THEN None
    ELSE f.doc

ToData(snap) ==
    Record(JNum(snap.ts), JNum(snap.product_count), JArr(snap.first_products), Missing)

save_state_merging(old, snap) ==
    IF old.kind = "json" /\ old.doc.t = "obj"
    THEN JsonFile(Record(JNum(snap.ts), JNum(snap.product_count),
                         JArr(snap.first_products), old.doc.o.other))
    ELSE JsonFile(ToData(snap))

save_state(old, snap) == JsonFile(ToData(snap))

\* ------------------------------------------------------- the notifier
\* "printed": credentials missing, message printed; "sent": the POST went
\* through; "raised": requests.post or raise_for_status raised.
telegram_send_either_credential(tok, ch, transport_ok) ==
    IF ~tok /\ ~ch THEN "printed"
    ELSE IF transport_ok THEN "sent"
    ELSE "raised"

telegram_send(tok, ch, transport_ok) ==
    IF ~tok \/ ~ch THEN "printed"
    ELSE IF transport_ok THEN "sent"
    ELSE "raised"

\* -------------------------------------------------------- the fetcher
\* An anchor a selector matches is 0 when it is no product link (no href,
\* or a javascript: href), else the key (title, href) of its product.
Junk == 0
Keys == 1..(NumSigs + 1)

\* The signature is the stripped "title-or-text | price | href", so two
\* keys can give one signature (a product matched once with a title
\* attribute and once with only its text): here the last two keys.
normalize_product_signature(key) == IF key = NumSigs + 1 THEN NumSigs ELSE key

\* What a page gives the selector loop for one selector: the anchors it
\* matches (none: count == 0), and whether the try block raises, which
\* leaves a the anchors read before the exception.
Selector(a, raises) == [a |-> a, raises |-> raises]

Range(q) == {q[i] : i \in 1..Len(q)}

\* the inner loop: junk and keys in seen are skipped, the others are
\* appended in order
AddNew(products, anchors) ==
    LET new == {i \in 1..Len(anchors) :
                   /\ anchors[i] # Junk
                   /\ anchors[i] \notin Range(products)
                   /\ \A j \in 1..(i - 1) : anchors[j] # anchors[i]}
        nth(n) == CHOOSE i \in new : Cardinality({j \in new : j < i}) = n - 1
    IN  products \o [n \in 1..Cardinality(new) |-> anchors[nth(n)]]

\* for sel in possible_card_selectors: sample the first 20 anchors, stop
\* once 8 products are collected; count == 0 and an exception go on to the
\* next selector
RECURSIVE Collect(_, _, _)
Collect(sel, i, products) ==
    IF i > Len(sel) THEN products
    ELSE LET more == AddNew(products, Take(sel[i].a, SampleAnchors))
         IN  IF sel[i].a # <<>> /\ ~sel[i].raises /\ Len(more) >= EnoughProducts
             THEN more
             ELSE Collect(sel, i + 1, more)

Signatures(products) ==
    [i \in 1..Len(products) |-> normalize_product_signature(products[i])]

\* page.loads: everything outside the selector loop succeeds (launch,
\* new_page, goto, content, close); page.sel: what each selector meets
scrape_snapshot_untruncated(page, now) ==
    IF ~page.loads
    THEN [raised |-> TRUE, snap |-> NoSnapshot]
    ELSE LET products == Collect(page.sel, 1, <<>>)
         IN  [raised |-> FALSE,
              snap |-> Snapshot(now, Len(products), Signatures(products))]

scrape_snapshot(page, now) ==
    IF ~page.loads
    THEN [raised |-> TRUE, snap |-> NoSnapshot]
    ELSE LET products == Collect(page.sel, 1, <<>>)
         IN  [raised |-> FALSE,
              snap |-> Snapshot(now, Len(products),
                                Take(Signatures(products), KeepSignatures))]

\* whether any selector of the page gave an anchor
Extraction(page) ==
    IF ~page.loads THEN "none"
    ELSE IF \E i \in 1..Len(page.sel) : page.sel[i].a # <<>> THEN "found"
    ELSE "all_failed"

AnchorSeqs(k) == [1..k -> {Junk} \cup Keys]

\* the ways n selectors can meet at most budget anchors between them; with
\* so few anchors the loop never has 8 products, an exception after an
\* anchor was read changes nothing, and a selector raises only before it
\* reads one
RECURSIVE SelSeqs(_, _)
SelSeqs(n, budget) ==
    IF n = 0 THEN {<<>>}
    ELSE UNION {{<<Selector(a, raises)>> \o rest :
                    a \in AnchorSeqs(k),
                    raises \in {FALSE, k = 0},
                    rest \in SelSeqs(n - 1, budget - k)} : k \in 0..budget}

NoPage == [loads |-> FALSE, sel |-> <<>>]

Pages ==
    {NoPage} \cup {[loads |-> TRUE, sel |-> q] : q \in SelSeqs(NumSelectors, MaxProducts)}

\* pages with many products: each selector reads the first n anchors of
\* one long list, n around the limits of the selector loop
Upto(n) == [i \in 1..n |-> i]

Lengths == {0, EnoughProducts - 1, EnoughProducts, KeepSignatures + 1, MaxAnchors}

LongPages ==
    {NoPage} \cup
    {[loads |-> TRUE, sel |-> q] :
        q \in [1..NumSelectors ->
                 {Selector(Upto(n), raises) : n \in Lengths, raises \in BOOLEAN}]}

\* what scrape_snapshot can return for the pages of a set
Fetches(pages) ==
    {LET r == scrape_snapshot(page, now)
     IN  [raised |-> r.raised, snap |-> r.snap, extraction |-> Extraction(page)] :
        page \in pages, now \in 1..MaxTs}

ScrapeOutcomes == Fetches(Pages)
LongScrapeOutcomes == Fetches(LongPages)

\* ------------------------------------------------ the change detector
PyEq(x, y) == x.t = y.t /\ x = y

\* dict.get(key, default)
PyGet(d, key, default) == IF d.o[key].t = "missing" THEN default ELSE d.o[key]

\* bool(v) is False
Falsy(v) ==
    \/ v.t = "null"
    \/ v.t = "num" /\ v.n = 0
    \/ v.t = "str" /\ v.s = ""
    \/ v.t = "arr" /\ v.a = <<>>
    \/ v.t = "obj" /\ \A k \in DOMAIN v.o : v.o[k].t = "missing"

Numerals == {"0", "1", "2", "3"}

StrToInt(s) ==
    CASE s = "0" -> 0
      [] s = "1" -> 1
      [] s = "2" -> 2
      [] s = "3" -> 3

\* int(v) raises TypeError (None, list, dict) or ValueError (a string that
\* is no numeral)
IntRaises(v) ==
    \/ v.t \in {"null", "arr", "obj"}
    \/ v.t = "str" /\ v.s \notin Numerals

IntOf(v) == IF v.t = "num" THEN v.n ELSE StrToInt(v.s)

\* should_alert(prev, curr) raises: prev has no .get (AttributeError), or
\* int() of its product_count raises
should_alert_raises(p) ==
    /\ p.t # "null"
    /\ \/ p.t # "obj"
       \/ IntRaises(PyGet(p, "product_count", JNum(0)))

should_alert_on_first_run(p, c) ==
    IF p.t = "null" THEN TRUE
    ELSE LET prev_count == IntOf(PyGet(p, "product_count", JNum(0)))
             got == PyGet(p, "first_products", JArr(<<>>))
             prev_sigs == IF Falsy(got) THEN JArr(<<>>) ELSE got
         IN  IF c.product_count > prev_count THEN TRUE
             ELSE IF c.first_products # <<>> /\ ~PyEq(JArr(c.first_products), prev_sigs)
                  THEN TRUE
                  ELSE FALSE

should_alert_unguarded(p, c) ==
    IF p.t = "null" THEN FALSE
    ELSE LET prev_count == IntOf(PyGet(p, "product_count", JNum(0)))
             got == PyGet(p, "first_products", JArr(<<>>))
             prev_sigs == IF Falsy(got) THEN JArr(<<>>) ELSE got
         IN  IF c.product_count > prev_count THEN TRUE
             ELSE IF ~PyEq(JArr(c.first_products), prev_sigs)
                  THEN TRUE
                  ELSE FALSE

should_alert_set_based(p, c) ==
    IF p.t = "null" THEN FALSE
    ELSE LET prev_count == IntOf(PyGet(p, "product_count", JNum(0)))
             got == PyGet(p, "first_products", JArr(<<>>))
             prev_sigs == IF Falsy(got) THEN JArr(<<>>) ELSE got
         IN  IF c.product_count > prev_count THEN TRUE
             ELSE IF c.first_products # <<>>
                     /\ (prev_sigs.t # "arr" \/ Range(c.first_products) # Range(prev_sigs.a))
                  THEN TRUE
                  ELSE FALSE

should_alert_at_equal_count(p, c) ==
    IF p.t = "null" THEN FALSE
    ELSE LET prev_count == IntOf(PyGet(p, "product_count", JNum(0)))
             got == PyGet(p, "first_products", JArr(<<>>))
             prev_sigs == IF Falsy(got) THEN JArr(<<>>) ELSE got
         IN  IF c.product_count >= prev_count THEN TRUE
             ELSE IF c.first_products # <<>> /\ ~PyEq(JArr(c.first_products), prev_sigs)
                  THEN TRUE
                  ELSE FALSE

should_alert(p, c) ==
    IF p.t = "null" THEN FALSE
    ELSE LET prev_count == IntOf(PyGet(p, "product_count", JNum(0)))
             got == PyGet(p, "first_products", JArr(<<>>))
             prev_sigs == IF Falsy(got) THEN JArr(<<>>) ELSE got
         IN  IF c.product_count > prev_count THEN TRUE
             ELSE IF c.first_products # <<>> /\ ~PyEq(JArr(c.first_products), prev_sigs)
                  THEN TRUE
                  ELSE FALSE

\* ------------------------------------------------------ initial files
\* What STATE_FILE may hold when the process starts: nothing, a record an
\* earlier run or another deployment wrote, or something else.
ShapedFiles ==
    {JsonFile(Record(JNum(0), JNum(c), JArr(s), Missing)) :
        c \in 0..MaxProducts, s \in SigSeqs}

OddFiles ==
    { NoFile,
      Garbage,
      JsonFile(None),
      JsonFile(JArr(<<>>)),
      JsonFile(JNum(5)),
      JsonFile(Record(Missing, Missing, Missing, Missing)),
      JsonFile(Record(Missing, Missing, Missing, JNum(5))),
      JsonFile(Record(JNum(0), JStr("abc"), JArr(<<1>>), Missing)),
      JsonFile(Record(JNum(0), JStr("1"), JArr(<<1>>), Missing)),
      JsonFile(Record(JNum(0), None, JArr(<<1>>), Missing)),
      JsonFile(Record(JNum(0), JNum(1), None, Missing)),
      JsonFile(Record(JNum(0), JNum(1), JStr("x"), Missing)),
      JsonFile(Record(JNum(0), JNum(1), JArr(<<1>>), JNum(5))) }

InitialFiles == ShapedFiles \cup OddFiles

\* ----------------------------------------------------------- the log
Has(e) == \E i \in 1..Len(log) : log[i] = e
Count(e) == Cardinality({i \in 1..Len(log) : log[i] = e})
Last(e) == Len(log) > 0 /\ log[Len(log)] = e

Alive == pc \notin {"crashed", "stopped"}

\* ------------------------------------------------- the last change alert
\* has: telegram_send posted a change alert (not one it only printed for
\* want of a token or chat id) and this record is still watched; outcome:
\* "sent" or "raised", what became of the post; product_count and
\* first_products: those of the Snapshot it was about; age: 0 in the cycle
\* of the alert, 1 afterwards; saved: what that cycle's save_state left in
\* the file: "ok", "garbage" (opened, then the write failed or the process
\* was killed), "failed" (open raised, file untouched), "no" while
\* save_state has not run.
NoAlert ==
    [has |-> FALSE, outcome |-> "none", product_count |-> 0,
     first_products |-> <<>>, age |-> 0, saved |-> "no"]

AlertOf(snap, r) ==
    IF r = "printed" THEN NoAlert
    ELSE [has |-> TRUE, outcome |-> r, product_count |-> snap.product_count,
          first_products |-> snap.first_products, age |-> 0, saved |-> "no"]

\* snap is the Signal of the alert g: same product_count and first_products
SameSignal(g, snap) ==
    /\ g.product_count = snap.product_count
    /\ g.first_products = snap.first_products

AfterSave(g, left) == IF g.has /\ g.age = 0 THEN [g EXCEPT !.saved = left] ELSE g

\* a later cycle fetches: the record is dropped if the fetch returned
\* another Signal, kept if it raised or returned the same Signal
AfterFetch(g, r) ==
    IF g.has /\ g.age = 1 /\ ~r.raised /\ ~SameSignal(g, r.snap) THEN NoAlert ELSE g

\* a cycle ends: the record is dropped at the end of the first later cycle
\* that fetched
EndCycle(g) ==
    IF g.has /\ g.age = 1 /\ Has("fetch_ok") THEN NoAlert
    ELSE IF g.has THEN [g EXCEPT !.age = 1]
    ELSE g

\* ------------------------------------------------------------- Init
Init ==
    /\ file \in InitialFiles
    /\ token \in BOOLEAN
    /\ chat \in BOOLEAN
    /\ pc = "boot"
    /\ prev = None
    /\ curr = NoSnapshot
    /\ startFile = file
    /\ log = <<>>
    /\ saved = [has |-> FALSE, snap |-> NoSnapshot]
    /\ sleepFor = 0
    /\ extraction = "none"
    /\ lastAlert = NoAlert

\* ---------------------------------------------------------- main_loop
\* telegram_send("SHEIN watcher started") before the loop; an exception
\* here leaves main_loop
Boot ==
    /\ pc = "boot"
    /\ \E transport_ok \in BOOLEAN :
         LET r == telegram_send(token, chat, transport_ok)
         IN  /\ log' = <<"startup_" \o r>>
             /\ pc' = IF r = "raised" THEN "crashed" ELSE "load"
    /\ UNCHANGED <<file, token, chat, prev, curr, startFile, saved, sleepFor, extraction, lastAlert>>

\* prev = load_state()
Load ==
    /\ pc = "load"
    /\ prev' = load_state(file)
    /\ startFile' = file
    /\ log' = <<"load">>
    /\ curr' = NoSnapshot
    /\ sleepFor' = 0
    /\ pc' = "scrape"
    /\ extraction' = "none"
    /\ UNCHANGED <<file, token, chat, saved, lastAlert>>

ScrapeOverwritesOnFailure ==
    /\ pc = "scrape"
    /\ \E r \in ScrapeOutcomes :
         /\ curr' = r.snap
         /\ extraction' = r.extraction
         /\ lastAlert' = AfterFetch(lastAlert, r)
         /\ log' = Append(log, IF r.raised THEN "fetch_raised" ELSE "fetch_ok")
         /\ pc' = IF r.raised THEN "save" ELSE "compare"
    /\ UNCHANGED <<file, token, chat, prev, startFile, saved, sleepFor>>

\* curr = scrape_snapshot()
Scrape ==
    /\ pc = "scrape"
    /\ \E r \in ScrapeOutcomes :
         /\ curr' = IF r.raised THEN curr ELSE r.snap
         /\ extraction' = r.extraction
         /\ lastAlert' = AfterFetch(lastAlert, r)
         /\ log' = Append(log, IF r.raised THEN "fetch_raised" ELSE "fetch_ok")
         /\ pc' = IF r.raised THEN "handler" ELSE "compare"
    /\ UNCHANGED <<file, token, chat, prev, startFile, saved, sleepFor>>

\* the same step on the pages with many products
ScrapeLong ==
    /\ pc = "scrape"
    /\ \E r \in LongScrapeOutcomes :
         /\ curr' = IF r.raised THEN curr ELSE r.snap
         /\ extraction' = r.extraction
         /\ lastAlert' = AfterFetch(lastAlert, r)
         /\ log' = Append(log, IF r.raised THEN "fetch_raised" ELSE "fetch_ok")
         /\ pc' = IF r.raised THEN "handler" ELSE "compare"
    /\ UNCHANGED <<file, token, chat, prev, startFile, saved, sleepFor>>

CompareSavesOnlyOnAlert ==
    /\ pc = "compare"
    /\ IF should_alert_raises(prev)
       THEN log' = Append(log, "cmp_raised") /\ pc' = "handler"
       ELSE IF should_alert(prev, curr)
            THEN log' = Append(log, "cmp_true") /\ pc' = "alert"
            ELSE log' = Append(log, "cmp_false") /\ pc' = "sleep"
    /\ UNCHANGED <<file, token, chat, prev, curr, startFile, saved, sleepFor, extraction, lastAlert>>

\* if should_alert(prev, curr):
Compare ==
    /\ pc = "compare"
    /\ IF should_alert_raises(prev)
       THEN log' = Append(log, "cmp_raised") /\ pc' = "handler"
       ELSE IF should_alert(prev, curr)
            THEN log' = Append(log, "cmp_true") /\ pc' = "alert"
            ELSE log' = Append(log, "cmp_false") /\ pc' = "save"
    /\ UNCHANGED <<file, token, chat, prev, curr, startFile, saved, sleepFor, extraction, lastAlert>>

AlertSavesOnFailure ==
    /\ pc = "alert"
    /\ \E transport_ok \in BOOLEAN :
         LET r == telegram_send(token, chat, transport_ok)
         IN  /\ log' = Append(log, "change_" \o r)
             /\ lastAlert' = AlertOf(curr, r)
             /\ pc' = "save"
    /\ UNCHANGED <<file, token, chat, prev, curr, startFile, saved, sleepFor, extraction>>

AlertRetriesOnFailure ==
    /\ pc = "alert"
    /\ \E transport_ok \in BOOLEAN :
         LET r == telegram_send(token, chat, transport_ok)
         IN  /\ log' = Append(log, "change_" \o r)
             /\ lastAlert' = AlertOf(curr, r)
             /\ pc' = IF r = "raised" THEN "alert" ELSE "save"
    /\ UNCHANGED <<file, token, chat, prev, curr, startFile, saved, sleepFor, extraction>>

\* telegram_send(msg), the change alert
Alert ==
    /\ pc = "alert"
    /\ \E transport_ok \in BOOLEAN :
         LET r == telegram_send(token, chat, transport_ok)
         IN  /\ log' = Append(log, "change_" \o r)
             /\ lastAlert' = AlertOf(curr, r)
             /\ pc' = IF r = "raised" THEN "handler" ELSE "save"
    /\ UNCHANGED <<file, token, chat, prev, curr, startFile, saved, sleepFor, extraction>>

\* save_state(curr): it completes; open() raises and the file is as it
\* was; or open() has truncated the file and the write raises
Save ==
    /\ pc = "save"
    /\ \E outcome \in {"ok", "open_raises", "write_raises"} :
         /\ file' = CASE outcome = "ok" -> save_state(file, curr)
                      [] outcome = "open_raises" -> file
                      [] outcome = "write_raises" -> Garbage
         /\ saved' = CASE outcome = "ok" -> [has |-> TRUE, snap |-> curr]
                       [] outcome = "open_raises" -> saved
                       [] outcome = "write_raises" -> [has |-> FALSE, snap |-> NoSnapshot]
         /\ lastAlert' = AfterSave(lastAlert,
                               CASE outcome = "ok" -> "ok"
                                 [] outcome = "open_raises" -> "failed"
                                 [] outcome = "write_raises" -> "garbage")
         /\ log' = Append(log, IF outcome = "ok" THEN "save_ok" ELSE "save_raised")
         /\ pc' = IF outcome = "ok" THEN "sleep" ELSE "handler"
    /\ UNCHANGED <<token, chat, prev, curr, startFile, sleepFor, extraction>>

\* except Exception as e: telegram_send("Watcher error ..."); an exception
\* here leaves main_loop
Handler ==
    /\ pc = "handler"
    /\ \E transport_ok \in BOOLEAN :
         LET r == telegram_send(token, chat, transport_ok)
         IN  /\ log' = Append(log, "error_" \o r)
             /\ lastAlert' = IF r = "raised" THEN EndCycle(lastAlert) ELSE lastAlert
             /\ pc' = IF r = "raised" THEN "crashed" ELSE "sleep"
    /\ UNCHANGED <<file, token, chat, prev, curr, startFile, saved, sleepFor, extraction>>

\* time.sleep(max(30, base + jitter)); the cycle is over: prev and curr
\* are not read again before the next cycle assigns them
Sleep ==
    /\ pc = "sleep"
    /\ \E jitter \in JitterMin..JitterMax :
         sleepFor' = Max(SleepFloor, BaseSleep + jitter)
    /\ log' = <<"sleep">>
    /\ prev' = None
    /\ curr' = NoSnapshot
    /\ startFile' = file
    /\ pc' = "load"
    /\ extraction' = "none"
    /\ lastAlert' = EndCycle(lastAlert)
    /\ UNCHANGED <<file, token, chat, saved>>

\* the process is ended from outside, between two steps
Kill ==
    /\ Alive
    /\ pc' = "stopped"
    /\ prev' = None
    /\ curr' = NoSnapshot
    /\ log' = <<>>
    /\ sleepFor' = 0
    /\ extraction' = "none"
    /\ lastAlert' = EndCycle(lastAlert)
    /\ UNCHANGED <<file, token, chat, startFile, saved>>

\* the process is ended while save_state is writing: open(STATE_FILE, "w")
\* has truncated the file and json.dump has not finished
KillInSave ==
    /\ pc = "save"
    /\ file' = Garbage
    /\ saved' = [has |-> FALSE, snap |-> NoSnapshot]
    /\ log' = Append(log, "save_killed")
    /\ pc' = "stopped"
    /\ lastAlert' = EndCycle(AfterSave(lastAlert, "garbage"))
    /\ UNCHANGED <<token, chat, prev, curr, startFile, sleepFor, extraction>>

\* the supervisor starts the process again: python shein_watch.py
Restart ==
    /\ ~Alive
    /\ pc' = "boot"
    /\ prev' = None
    /\ curr' = NoSnapshot
    /\ log' = <<>>
    /\ sleepFor' = 0
    /\ startFile' = file
    /\ extraction' = "none"
    /\ UNCHANGED <<file, token, chat, saved, lastAlert>>

Next ==
    \/ Boot
    \/ Load
    \/ Scrape
    \/ Compare
    \/ Alert
    \/ Save
    \/ Handler
    \/ Sleep
    \/ Kill
    \/ KillInSave
    \/ Restart

Spec == Init /\ [][Next]_vars

\* the loop of one process, credentials set, no state file at the start,
\* on the pages with many products
LongInit ==
    /\ file = NoFile
    /\ token = TRUE
    /\ chat = TRUE
    /\ pc = "boot"
    /\ prev = None
    /\ curr = NoSnapshot
    /\ startFile = file
    /\ log = <<>>
    /\ saved = [has |-> FALSE, snap |-> NoSnapshot]
    /\ sleepFor = 0
    /\ extraction = "none"
    /\ lastAlert = NoAlert

LongNext ==
    \/ Boot
    \/ Load
    \/ ScrapeLong
    \/ Compare
    \/ Alert
    \/ Save
    \/ Handler
    \/ Sleep

LongSpec == LongInit /\ [][LongNext]_vars

\* ============================================================ claims
\* The cycle body has ended: the loop is at its sleep, or an exception
\* has left main_loop from inside a cycle.
CycleOver == pc = "sleep" \/ (pc = "crashed" /\ Has("load"))

Compared == Has("cmp_true") \/ Has("cmp_false") \/ Has("cmp_raised")

ChangeAlertTried == Has("change_sent") \/ Has("change_printed") \/ Has("change_raised")

NoStepFailed ==
    ~(Has("fetch_raised") \/ Has("cmp_raised") \/ Has("change_raised")
        \/ Has("save_raised") \/ Has("error_raised"))

\* p is a dict whose product_count is a number and whose first_products is
\* a list
Shaped(p) ==
    /\ p.t = "obj"
    /\ p.o.product_count.t = "num"
    /\ p.o.first_products.t = "arr"

ShapedFile(f) == f.kind = "json" /\ Shaped(f.doc) /\ f.doc.o.ts.t = "num"

PriorCount == prev.o.product_count.n
PriorSigs == prev.o.first_products.a

\* f is a record as save_state writes it: the three fields and no other,
\* the count not below the number of signatures kept
WrittenBySave(f) ==
    /\ ShapedFile(f)
    /\ f.doc.o.other.t = "missing"
    /\ f.doc.o.product_count.n >= Len(f.doc.o.first_products.a)

\* the file holds exactly the record of snap: its three fields, no other
Holds(f, snap) == PyEq(load_state(f), ToData(snap))

Occurrences(q, x) == Cardinality({i \in 1..Len(q) : q[i] = x})

IsPermutation(q, r) ==
    /\ Len(q) = Len(r)
    /\ \A x \in Sigs : Occurrences(q, x) = Occurrences(r, x)

\* C1 (as claimed): when a cycle has fetched, should_alert was true and the
\* change alert's telegram_send raised, the state file at the end of the
\* cycle holds the fetched Snapshot. Stated for the cycles that began with a
\* record save_state wrote, the plainest case of the claim.
C1_NotifyFailureIsolation ==
    ( /\ CycleOver
      /\ WrittenBySave(startFile)
      /\ Has("fetch_ok") /\ Has("cmp_true") /\ Has("change_raised") )
        => Holds(file, curr)

\* C2 (as claimed): no exception leaves main_loop from inside a cycle,
\* whatever fails in it: the loop never terminates.
C2_LoopNeverTerminates == ~(pc = "crashed" /\ Has("load"))

\* C3: in a cycle whose scrape_snapshot raised, save_state is not executed,
\* the state file is what it was when the cycle began, should_alert is not
\* evaluated and no change alert is handed to telegram_send.
C3_FetchFailureIsolation ==
    Has("fetch_raised") =>
        /\ file = startFile
        /\ ~Has("save_ok") /\ ~Has("save_raised")
        /\ ~Compared
        /\ ~ChangeAlertTried

C3_Witness ==
    /\ pc = "sleep"
    /\ Has("fetch_raised")
    /\ Has("error_sent")
    /\ startFile \in ShapedFiles
    /\ startFile.doc.o.first_products.a # <<>>

\* C4: with no prior state (prev is None), should_alert returns false for
\* every current Snapshot: it neither raises nor alerts.
C4_ColdStartSuppression ==
    /\ (pc = "compare" /\ prev.t = "null")
          => ~should_alert_raises(prev) /\ ~should_alert(prev, curr)
    /\ (Compared /\ prev.t = "null") => Has("cmp_false")

C4_Witness ==
    /\ prev.t = "null"
    /\ Has("cmp_false")
    /\ curr.product_count > 0
    /\ curr.first_products # <<>>

\* C5 (as claimed): for a prior record and any current Snapshot,
\* should_alert is true exactly when the current count exceeds the prior
\* count or the current sequence differs from the prior sequence. Stated
\* for the prior records save_state wrote, the plainest case of the claim.
C5_AlertIffCountUpOrSequenceDiffers ==
    (WrittenBySave(startFile) /\ Shaped(prev) /\ Compared) =>
        (Has("cmp_true") <=>
            (curr.product_count > PriorCount \/ curr.first_products # PriorSigs))

\* C5 (amended): for a prior record and any current Snapshot, should_alert
\* is true exactly when the current count exceeds the prior count, or the
\* current sequence is not empty and differs from the prior sequence; it
\* is false otherwise, and it does not raise.
C5_AlertIffCountUpOrNonEmptySequenceDiffers ==
    (Shaped(prev) /\ Compared) =>
        /\ ~Has("cmp_raised")
        /\ Has("cmp_true") <=>
              \/ curr.product_count > PriorCount
              \/ (curr.first_products # <<>> /\ curr.first_products # PriorSigs)

C5_Witness ==
    /\ Shaped(prev)
    /\ Has("cmp_false")
    /\ curr.first_products = <<>>
    /\ PriorSigs # <<>>

\* C6: when the current Snapshot has the prior count and its sequence is a
\* reordering of the prior sequence that differs from it, should_alert is
\* true.
C6_OrderSensitivity ==
    ( /\ Shaped(prev)
      /\ Compared
      /\ curr.product_count = PriorCount
      /\ IsPermutation(curr.first_products, PriorSigs)
      /\ curr.first_products # PriorSigs )
        => Has("cmp_true")

C6_Witness ==
    /\ Shaped(prev)
    /\ Has("cmp_true")
    /\ curr.product_count = PriorCount
    /\ IsPermutation(curr.first_products, PriorSigs)
    /\ curr.first_products # PriorSigs

\* prev is what save_state writes for a Snapshot with curr's count and
\* sequence
PersistedFormOfCurr ==
    /\ prev.t = "obj"
    /\ prev.o.ts.t = "num"
    /\ prev.o.other.t = "missing"
    /\ PyEq(prev.o.product_count, JNum(curr.product_count))
    /\ PyEq(prev.o.first_products, JArr(curr.first_products))

\* C7: when the prior state is the persisted form of the fetched Snapshot,
\* should_alert is false, no change alert is handed to telegram_send, and
\* the save leaves the file's count and sequence as they were.
C7_Stability ==
    (Has("fetch_ok") /\ PersistedFormOfCurr) =>
        /\ pc = "compare" => ~should_alert_raises(prev) /\ ~should_alert(prev, curr)
        /\ Compared => Has("cmp_false")
        /\ ~ChangeAlertTried
        /\ Has("save_ok") =>
              /\ load_state(file).t = "obj"
              /\ load_state(file).o.product_count = load_state(startFile).o.product_count
              /\ load_state(file).o.first_products = load_state(startFile).o.first_products

C7_Witness ==
    /\ pc = "sleep"
    /\ Has("fetch_ok")
    /\ PersistedFormOfCurr
    /\ Last("save_ok")
    /\ curr.first_products # <<>>

\* C8: a cycle that fetched and in which nothing raised has executed
\* save_state exactly once, as its last step, whether should_alert was true
\* or false, and the file then holds the fetched Snapshot; when there was no
\* state file, no change alert was handed to telegram_send.
C8_PersistOnEverySuccess ==
    (pc = "sleep" /\ Has("fetch_ok") /\ NoStepFailed) =>
        /\ Count("save_ok") = 1
        /\ Last("save_ok")
        /\ Has("cmp_true") \/ Has("cmp_false")
        /\ Holds(file, curr)
        /\ startFile = NoFile => (Has("cmp_false") /\ ~ChangeAlertTried)

C8_Witness ==
    /\ pc = "sleep"
    /\ startFile = NoFile
    /\ Has("cmp_false")
    /\ Last("save_ok")
    /\ curr.product_count > 0
    /\ Holds(file, curr)

\* C9 (as claimed): when the state file is missing, unreadable or not a
\* record of the expected shape, a cycle that fetches (and whose save does
\* not fail) sends no change alert, does not raise in should_alert, and
\* leaves the file holding the fetched Snapshot.
C9_CorruptStateLikeFirstRun ==
    (CycleOver /\ ~ShapedFile(startFile) /\ Has("fetch_ok") /\ ~Has("save_raised")) =>
        /\ ~ChangeAlertTried
        /\ ~Has("cmp_raised")
        /\ Holds(file, curr)

\* C10: once save_state(S) has completed, and until another save_state
\* starts writing, load_state() returns a dict whose ts, product_count and
\* first_products are those of S and which holds no other key, whatever the
\* file held before and also after the process is stopped and started again.
C10_SaveLoadRoundTrip ==
    saved.has =>
        LET d == load_state(file)
        IN  /\ d.t = "obj"
            /\ PyEq(d.o.ts, JNum(saved.snap.ts))
            /\ PyEq(d.o.product_count, JNum(saved.snap.product_count))
            /\ PyEq(d.o.first_products, JArr(saved.snap.first_products))
            /\ d.o.other.t = "missing"

C10_Witness ==
    /\ pc = "scrape"
    /\ startFile.kind = "json"
    /\ saved.has
    /\ saved.snap.first_products # <<>>
    /\ PyEq(prev, ToData(saved.snap))
    /\ Has("load")

\* C11 (as claimed): the state file is written atomically: when save_state
\* raises or the process is ended while it writes, load_state() afterwards
\* returns the complete previous record or the complete new one.
C11_AtomicPersistence ==
    (WrittenBySave(startFile) /\ (Has("save_raised") \/ Has("save_killed")))
        => (PyEq(load_state(file), load_state(startFile)) \/ Holds(file, curr))

\* C12: when the bot token or the chat id is missing, every telegram_send
\* prints its message and returns without contacting the transport; no
\* exception leaves main_loop, and a cycle that fetched and detected a change
\* persists the fetched Snapshot (unless save_state itself fails).
C12_MissingConfigNeverFails ==
    (~token \/ ~chat) =>
        /\ \A i \in 1..Len(log) :
              log[i] \notin {"startup_sent", "startup_raised", "change_sent",
                             "change_raised", "error_sent", "error_raised"}
        /\ pc # "crashed"
        /\ (pc = "sleep" /\ Has("cmp_true") /\ ~Has("save_raised")) =>
              /\ Has("change_printed")
              /\ Last("save_ok")
              /\ Holds(file, curr)

C12_Witness ==
    /\ ~token
    /\ chat
    /\ pc = "sleep"
    /\ Has("change_printed")
    /\ Last("save_ok")
    /\ Holds(file, curr)

\* C13 (as claimed): once the change alert's telegram_send has raised in a
\* cycle, telegram_send is not called again in that cycle.
C13_NoNotifierCallAfterFailure ==
    Has("change_raised") =>
        ~(Has("error_sent") \/ Has("error_printed") \/ Has("error_raised"))

\* C14 (as claimed): when the delivery of the startup announcement fails,
\* the process does not terminate and the loop starts its first cycle.
C14_StartupFailureDoesNotCrash == ~(pc = "crashed" /\ Has("startup_raised"))

\* C15 (as claimed): every cycle, whatever step failed in it, ends with a
\* sleep of max(30, 30 + jitter) seconds, jitter in -20..30, so of 30 to 60
\* seconds.
C15_SleepAfterEveryCycle ==
    /\ (pc = "load" /\ Last("sleep")) =>
          /\ sleepFor >= 30
          /\ sleepFor <= 60
          /\ \E jitter \in -20..30 : sleepFor = Max(30, 30 + jitter)
    /\ Has("load") => pc # "crashed"

\* the place of a step in a cycle
Rank(e) ==
    CASE e \in {"startup_sent", "startup_printed", "startup_raised"} -> 0
      [] e = "load" -> 1
      [] e \in {"fetch_ok", "fetch_raised"} -> 2
      [] e \in {"cmp_true", "cmp_false", "cmp_raised"} -> 3
      [] e \in {"change_sent", "change_printed", "change_raised"} -> 4
      [] e \in {"save_ok", "save_raised", "save_killed"} -> 5
      [] e \in {"error_sent", "error_printed", "error_raised"} -> 6
      [] e = "sleep" -> 7

ChangeAlerts == Count("change_sent") + Count("change_printed") + Count("change_raised")

\* C16: in a cycle that fetched, the change alert is handed to telegram_send
\* exactly once when should_alert was true and never when it was false; the
\* steps of a cycle happen in the order load, fetch, compare, alert, persist,
\* (error report,) sleep, none of them twice.
C16_OneAlertPerChangeInOrder ==
    /\ \A i \in 1..(Len(log) - 1) : Rank(log[i]) < Rank(log[i + 1])
    /\ pc = "scrape" => log = <<"load">>
    /\ pc = "compare" => Last("fetch_ok")
    /\ pc = "alert" => Last("cmp_true") /\ ChangeAlerts = 0
    /\ pc = "save" => Last("cmp_false") \/ Last("change_sent") \/ Last("change_printed")
    /\ pc = "sleep" => Last("save_ok") \/ Last("error_sent") \/ Last("error_printed")
    /\ (Has("cmp_true") /\ pc # "alert") => ChangeAlerts = 1
    /\ ~Has("cmp_true") => ChangeAlerts = 0

C16_Witness ==
    /\ pc = "sleep"
    /\ log = <<"load", "fetch_ok", "cmp_true", "change_sent", "save_ok">>

\* C17: when the page loads but every product selector raises or matches
\* nothing, scrape_snapshot raises, so the cycle ends as a failed fetch and
\* the state file still holds the baseline it held when the cycle began.
\* Stated for a baseline of at least one product written by save_state.
C17_FetchFailsWhenNoSelectorMatches ==
    (/\ CycleOver
     /\ WrittenBySave(startFile)
     /\ startFile.doc.o.product_count.n > 0
     /\ extraction = "all_failed")
        => (Has("fetch_raised") /\ ~Has("fetch_ok") /\ file = startFile)

\* the record save_state leaves in a file
BoundedRecord(f) ==
    f.kind = "json" =>
        /\ Len(f.doc.o.first_products.a) <= KeepSignatures
        /\ f.doc.o.product_count.n >= Len(f.doc.o.first_products.a)

BoundedSnapshot(snap) ==
    /\ Len(snap.first_products) <= KeepSignatures
    /\ snap.product_count >= Len(snap.first_products)

\* C18: every Snapshot scrape_snapshot returns, and so every record
\* save_state writes, has at most 10 first_products and a product_count of
\* at least their number.
C18_BoundedSignal ==
    /\ BoundedSnapshot(curr)
    /\ saved.has => BoundedSnapshot(saved.snap)
    /\ BoundedRecord(file)
    /\ \A r \in LongScrapeOutcomes : BoundedSnapshot(r.snap)

C18_Witness ==
    /\ pc = "sleep"
    /\ Last("save_ok")
    /\ curr.product_count > KeepSignatures
    /\ Len(curr.first_products) = KeepSignatures
    /\ Holds(file, curr)

SaveRan == Has("save_ok") \/ Has("save_raised") \/ Has("save_killed")

\* C19: save_state runs in a cycle only after should_alert returned false
\* or the change alert's telegram_send returned; a cycle whose change alert
\* raised leaves the state file as it found it, and the next cycle that
\* fetches the same Signal finds should_alert true again.
C19_BaselineAdvancesOnlyAfterHandOff ==
    /\ (pc = "save" \/ SaveRan)
           => (Has("cmp_false") \/ Has("change_sent") \/ Has("change_printed"))
    /\ Has("change_raised") => (pc # "save" /\ ~SaveRan /\ file = startFile)
    /\ (/\ lastAlert.has
        /\ lastAlert.outcome = "raised"
        /\ lastAlert.age = 1
        /\ Alive
        /\ Compared
        /\ SameSignal(lastAlert, curr)) => Has("cmp_true")

C19_Witness ==
    /\ lastAlert.has
    /\ lastAlert.outcome = "raised"
    /\ lastAlert.age = 1
    /\ pc = "alert"
    /\ Last("cmp_true")
    /\ SameSignal(lastAlert, curr)

\* C20: after a cycle whose change alert for a Signal was sent and whose
\* save_state ran, whether or not the write succeeded, the next cycle that
\* fetches finds should_alert false if it fetches the same Signal, so it
\* sends no second alert for it. Stated for cycles that begin with a
\* record written by save_state in the file.
C20_NoDuplicateAlert ==
    (/\ WrittenBySave(startFile)
     /\ lastAlert.has
     /\ lastAlert.outcome = "sent"
     /\ lastAlert.saved # "no"
     /\ lastAlert.age = 1
     /\ Alive
     /\ Compared
     /\ SameSignal(lastAlert, curr)) => (Has("cmp_false") /\ ~ChangeAlertTried)

====
